---- MODULE Spec2Model ----
(***************************************************************************)
(* Survey Response Explorer (src/vis.py): one Streamlit script, main(),    *)
(* re-run from top to bottom after every user interaction.  The state is   *)
(* the session state (selected_index, the keyed widgets view_mode_selector *)
(* and response_grid) plus the values of the un-keyed widgets; one action  *)
(* is one user interaction followed by the whole render pass it triggers.  *)
(*                                                                         *)
(* Column names are sequences of characters so that col.lower() and the    *)
(* substring test of line 65 are computed.  Cell values are integers; NaN  *)
(* is the empty cell.  Row positions and column positions are 0-based as   *)
(* in the source; sequences are indexed with position + 1.                 *)
(***************************************************************************)
EXTENDS Integers, Sequences, FiniteSets, TLC

VARIABLES
    uploaded_file,       \* value of the file_uploader widget (line 25)
    selected_index,      \* st.session_state.selected_index (lines 13-14)
    view_mode_selector,  \* st.session_state.view_mode_selector, "absent" when the key is not there
    response_grid,       \* st.session_state.response_grid: [has, rows]
    name_widget,         \* stored value of the identifier-column selectbox (line 68)
    row_widget,          \* stored value of the "Viewing Record:" selectbox (line 125)
    question_widget,     \* stored value of the question selectbox (line 205)
    event,               \* the interaction that triggered the last render pass
    before,              \* selection state and pending grid selection when that pass started
    page                 \* what the last render pass produced

vars == <<uploaded_file, selected_index, view_mode_selector, response_grid,
          name_widget, row_widget, question_widget, event, before, page>>

---------------------------------------------------------------------------
(* Bound: the data rows of an uploaded file *)

MaxRows == 3

---------------------------------------------------------------------------
(* Column names *)

cResponseID == <<"R", "e", "s", "p", "o", "n", "s", "e", " ", "I", "D">>
cName == <<"N", "a", "m", "e">>
cSatisfaction == <<"S", "a", "t", "i", "s", "f", "a", "c", "t", "i", "o", "n", " ", "S", "c", "o", "r", "e", " ", "(", "1", "-", "1", "0", ")">>
cLikeMost == <<"W", "h", "a", "t", " ", "d", "i", "d", " ", "y", "o", "u", " ", "l", "i", "k", "e", " ", "m", "o", "s", "t", "?">>
cImprove == <<"W", "h", "a", "t", " ", "c", "a", "n", " ", "w", "e", " ", "i", "m", "p", "r", "o", "v", "e", "?">>
cScore == <<"S", "c", "o", "r", "e">>
cID == <<"I", "D">>
cUSERNAME == <<"U", "S", "E", "R", "N", "A", "M", "E">>
cRowID == <<"R", "o", "w", "_", "I", "D">>
cIndex == <<"i", "n", "d", "e", "x">>
cLevel0 == <<"l", "e", "v", "e", "l", "_", "0">>
NameLit == <<"n", "a", "m", "e">>

\* str.lower() on the ASCII letters
LowerMap == [A |-> "a", B |-> "b", C |-> "c", D |-> "d", E |-> "e", F |-> "f", G |-> "g", H |-> "h", I |-> "i", J |-> "j", K |-> "k", L |-> "l", M |-> "m", N |-> "n", O |-> "o", P |-> "p", Q |-> "q", R |-> "r", S |-> "s", T |-> "t", U |-> "u", V |-> "v", W |-> "w", X |-> "x", Y |-> "y", Z |-> "z"]

lower(s) == [i \in 1..Len(s) |-> IF s[i] \in DOMAIN LowerMap THEN LowerMap[s[i]] ELSE s[i]]

\* Python's  sub in s  on strings
Contains(sub, s) == \E i \in 1..(Len(s) - Len(sub) + 1) : SubSeq(s, i, i + Len(sub) - 1) = sub

Range(s) == {s[i] : i \in 1..Len(s)}

---------------------------------------------------------------------------
(* Tables *)

\* the empty cell, pd.isna(val)
NaN == -1

isna(val) == val = NaN

NoDF == [columns |-> <<>>, rows |-> <<>>]

nrows(df) == Len(df.rows)

\* position (0-based) of a column name, df.columns.get_loc
get_loc(df, col) == (CHOOSE i \in 1..Len(df.columns) : df.columns[i] = col) - 1

\* the headers of the uploaded CSV files; every file has at least one data row
Headers == <<
    <<cName, cScore>>,
    <<cID, cName>>,
    <<cScore, cUSERNAME, cName>>,
    <<cIndex, cScore>>,
    <<cRowID, cScore>>,
    <<cIndex, cLevel0>> >>

\* the uploader holds no file, a file that does not parse, or a CSV file with
\* header Headers[hdr] and n data rows
NoFile == [kind |-> "none", hdr |-> 0, n |-> 0]
BadFile == [kind |-> "bad", hdr |-> 0, n |-> 0]
CsvFiles == [kind : {"csv"}, hdr : 1..Len(Headers), n : 1..MaxRows]
Files == CsvFiles \cup {BadFile}

\* the cell of data row r (0-based), column c (1-based) of an uploaded file:
\* empty on one diagonal in three, else a value that names its place
FileCell(file, r, c) == IF (r + c) % 3 = 2 THEN NaN ELSE 10 * (r + 1) + c

\* pd.read_csv on an uploaded file that parses: header row, then the data rows
read_csv(file) ==
    [columns |-> Headers[file.hdr],
     rows |-> [r \in 1..file.n |-> [c \in 1..Len(Headers[file.hdr]) |-> FileCell(file, r - 1, c)]]]

\* pd.read_csv on the example survey text: five rows, five columns, no empty cell
ExampleData ==
    [columns |-> <<cResponseID, cName, cSatisfaction, cLikeMost, cImprove>>,
     rows |-> [r \in 1..5 |-> [c \in 1..5 |-> IF c = 1 THEN r ELSE 10 * r + c]]]

\* the name df.reset_index gives the inserted column
reset_index_name(df) == IF cIndex \notin Range(df.columns) THEN cIndex ELSE cLevel0

\* df.reset_index raises ValueError when the name it would insert exists
reset_index_raises(df) == reset_index_name(df) \in Range(df.columns)

\* df.reset_index(inplace=True): the row positions become the first column
reset_index(df) ==
    [columns |-> <<reset_index_name(df)>> \o df.columns,
     rows |-> [r \in 1..nrows(df) |-> <<r - 1>> \o df.rows[r]]]

\* df.rename(columns={'index': 'Row_ID'})
rename(df) ==
    [df EXCEPT !.columns = [i \in 1..Len(df.columns) |->
        IF df.columns[i] = cIndex THEN cRowID ELSE df.columns[i]]]

\* lines 56-59
AddRowID(df) == IF cRowID \notin Range(df.columns) THEN rename(reset_index(df)) ELSE df

---------------------------------------------------------------------------
(* Session state and widgets *)

Overview == "Overview & Sorting"
Detail == "Individual Detail View"
QuestionAnalysis == "Question Analysis View"

\* the options of the view-mode radio, line 89
ViewModes == <<Overview, Detail, QuestionAnalysis>>

NoWidget == [has |-> FALSE, id |-> <<>>, val |-> 0]
NoGrid == [has |-> FALSE, rows |-> <<>>]

\* the session of a freshly opened page: lines 13-14 have run, no widget has a value yet
FreshSession ==
    [selected_index |-> 0,
     view_mode_selector |-> "absent",
     response_grid |-> NoGrid,
     name_widget |-> NoWidget,
     row_widget |-> NoWidget,
     question_widget |-> NoWidget]

\* a selectbox without key: its identity is its options and its index argument;
\* it returns the value the user gave this very widget, else the option at index
selectbox(widget, id, index) == IF widget.has /\ widget.id = id THEN widget.val ELSE index

\* nothing rendered yet
BlankPage ==
    [exit |-> "running",
     shown |-> {},
     error |-> FALSE,
     src |-> NoDF,
     df |-> NoDF,
     default_name_index |-> 0,
     name_col |-> <<>>,
     view_mode |-> "none",
     record |-> 0,
     question |-> <<>>,
     blocks |-> <<>>]

---------------------------------------------------------------------------
(* main(), lines 16-259 *)

\* the return placed after the grid selection is read
EarlyReturnAfterSelection(ss) ==
    [ss |-> IF ss.response_grid.has /\ ss.response_grid.rows # <<>>
            THEN [ss EXCEPT !.selected_index = ss.response_grid.rows[1],
                            !.view_mode_selector = "Individual Detail View"]
            ELSE ss,
     page |-> [BlankPage EXCEPT !.exit = "return43", !.shown = {"button"}]]

\* lines 42-43: no file and the example button not clicked in this run
EarlyReturn(ss) ==
    [ss |-> ss, page |-> [BlankPage EXCEPT !.exit = "return43", !.shown = {"button"}]]

\* the error path also putting the selection back to the first row
OnParseErrorResetsRow(ss, shown) ==
    [ss |-> [ss EXCEPT !.selected_index = 0],
     page |-> [BlankPage EXCEPT !.exit = "return54", !.shown = shown, !.error = TRUE]]

\* lines 52-54: st.error, return
OnParseError(ss, shown) ==
    [ss |-> ss, page |-> [BlankPage EXCEPT !.exit = "return54", !.shown = shown, !.error = TRUE]]

\* the test of line 65 without .lower()
possible_names_case_sensitive(df) == SelectSeq(df.columns, LAMBDA col : Contains(NameLit, col))

\* line 65
possible_names(df) == SelectSeq(df.columns, LAMBDA col : Contains(NameLit, lower(col)))

\* line 66
default_name_index(df) ==
    IF possible_names(df) # <<>> THEN get_loc(df, possible_names(df)[1]) ELSE 0

\* lines 78-82: a row selected in the grid
HandleSelection(ss) ==
    IF ss.response_grid.has /\ ss.response_grid.rows # <<>>
    THEN [ss EXCEPT !.selected_index = ss.response_grid.rows[1],
                    !.view_mode_selector = Detail]
    ELSE ss

\* lines 87-91: the radio keyed view_mode_selector shows the stored value, else its first option
radio(ss) == IF ss.view_mode_selector = "absent" THEN ViewModes[1] ELSE ss.view_mode_selector

\* the ordering broken: the radio constructed first, the grid selection read after it
RadioBeforeSelection(ss) ==
    [ss |-> [HandleSelection(ss) EXCEPT !.view_mode_selector = radio(ss)],
     view_mode |-> radio(ss)]

\* lines 75-91: the grid selection is read, then the radio is constructed
Navigation(ss) ==
    [ss |-> [HandleSelection(ss) EXCEPT !.view_mode_selector = radio(HandleSelection(ss))],
     view_mode |-> radio(HandleSelection(ss))]

\* lines 94-111: the grid, keyed response_grid, with single-row selection
OverviewView(ss, pg) ==
    [ss |-> [ss EXCEPT !.response_grid =
                IF ss.response_grid.has THEN ss.response_grid ELSE [has |-> TRUE, rows |-> <<>>]],
     page |-> [pg EXCEPT !.exit = "end", !.shown = @ \cup {"grid"}]]

\* lines 176-192: the loop over the columns from position k (1-based) on
RECURSIVE DetailLoop(_, _, _)
DetailLoop(df, row_data, k) ==
    IF k > Len(df.columns) THEN <<>>
    ELSE IF df.columns[k] = cRowID THEN DetailLoop(df, row_data, k + 1)
    ELSE IF isna(row_data[k]) THEN DetailLoop(df, row_data, k + 1)
    ELSE <<[question |-> df.columns[k], answer |-> row_data[k]]>> \o DetailLoop(df, row_data, k + 1)

\* lines 121-123: the labels of the options of the row selector
get_label(df, name_col) ==
    [i \in 1..nrows(df) |-> <<df.rows[i][get_loc(df, name_col) + 1], i - 1>>]

\* lines 114-192: the row selector raises when its index argument is no option
DetailView(ss, pg) ==
    IF ss.selected_index \notin 0..(nrows(pg.df) - 1)
    THEN [ss |-> ss, page |-> [pg EXCEPT !.exit = "raise"]]
    ELSE LET id == <<get_label(pg.df, pg.name_col), ss.selected_index>>
             selected == selectbox(ss.row_widget, id, ss.selected_index)
         IN  [ss |-> [ss EXCEPT !.row_widget = [has |-> TRUE, id |-> id, val |-> selected],
                                !.selected_index = selected],
              page |-> [pg EXCEPT !.exit = "end",
                                    !.shown = @ \cup {"rowsel"},
                                    !.record = selected,
                                    !.blocks = DetailLoop(pg.df, pg.df.rows[selected + 1], 1)]]

\* line 203
available_cols(df) == SelectSeq(df.columns, LAMBDA c : c # cRowID)

\* the loop with pd.isna applied to name_val instead of answer_val
RECURSIVE QuestionLoopTestsName(_, _, _, _)
QuestionLoopTestsName(df, name_col, selected_question, r) ==
    IF r > nrows(df) THEN <<>>
    ELSE IF isna(df.rows[r][get_loc(df, name_col) + 1])
         THEN QuestionLoopTestsName(df, name_col, selected_question, r + 1)
         ELSE <<[question |-> df.rows[r][get_loc(df, name_col) + 1],
                 answer |-> df.rows[r][get_loc(df, selected_question) + 1]]>>
              \o QuestionLoopTestsName(df, name_col, selected_question, r + 1)

\* lines 247-259: the loop over the rows from position r (1-based) on
RECURSIVE QuestionLoop(_, _, _, _)
QuestionLoop(df, name_col, selected_question, r) ==
    IF r > nrows(df) THEN <<>>
    ELSE IF isna(df.rows[r][get_loc(df, selected_question) + 1])
         THEN QuestionLoop(df, name_col, selected_question, r + 1)
         ELSE <<[question |-> df.rows[r][get_loc(df, name_col) + 1],
                 answer |-> df.rows[r][get_loc(df, selected_question) + 1]]>>
              \o QuestionLoop(df, name_col, selected_question, r + 1)

\* lines 195-259
QuestionView(ss, pg) ==
    LET id == <<available_cols(pg.df), 0>>
        chosen == selectbox(ss.question_widget, id, 0)
        selected_question == available_cols(pg.df)[chosen + 1]
    IN  [ss |-> [ss EXCEPT !.question_widget = [has |-> TRUE, id |-> id, val |-> chosen]],
         page |-> [pg EXCEPT !.exit = "end",
                               !.shown = @ \cup {"qsel"},
                               !.question = selected_question,
                               !.blocks = QuestionLoop(pg.df, pg.name_col, selected_question, 1)]]

\* lines 61-259: the controls and the view of a loaded table
Render(ss, src, df, shown) ==
    LET id == <<df.columns, default_name_index(df)>>
        chosen == selectbox(ss.name_widget, id, default_name_index(df))
        nav == Navigation([ss EXCEPT !.name_widget = [has |-> TRUE, id |-> id, val |-> chosen]])
        pg == [BlankPage EXCEPT !.shown = shown \cup {"name", "radio"},
                                  !.src = src,
                                  !.df = df,
                                  !.default_name_index = default_name_index(df),
                                  !.name_col = df.columns[chosen + 1],
                                  !.view_mode = nav.view_mode]
    IN  IF nav.view_mode = Overview THEN OverviewView(nav.ss, pg)
        ELSE IF nav.view_mode = Detail THEN DetailView(nav.ss, pg)
        ELSE QuestionView(nav.ss, pg)

\* lines 45-59: the table of the upload, or of the example text
Load(ss, file, shown) ==
    IF file.kind = "bad" THEN OnParseError(ss, shown)
    ELSE LET src == IF file.kind = "none" THEN ExampleData ELSE read_csv(file)
         IN  IF cRowID \notin Range(src.columns) /\ reset_index_raises(src)
             THEN [ss |-> ss, page |-> [BlankPage EXCEPT !.exit = "raise", !.shown = shown, !.src = src]]
             ELSE Render(ss, src, AddRowID(src), shown)

\* lines 16-259; button is the value st.button returns in this run
main(ss, file, button) ==
    IF file.kind = "none"
    THEN IF button THEN Load(ss, file, {"button"}) ELSE EarlyReturn(ss)
    ELSE Load(ss, file, {})

\* The end of a script run.  A run that ends normally (return included) drops the
\* value of every widget it did not construct, keyed or not; a run that ends in an
\* uncaught exception keeps them all.  selected_index is no widget key and stays.
Finish(run) ==
    IF run.page.exit = "raise" THEN run.ss
    ELSE [selected_index |-> run.ss.selected_index,
          view_mode_selector |->
              IF "radio" \in run.page.shown THEN run.ss.view_mode_selector ELSE "absent",
          response_grid |->
              IF "grid" \in run.page.shown THEN run.ss.response_grid ELSE NoGrid,
          name_widget |->
              IF "name" \in run.page.shown THEN run.ss.name_widget ELSE NoWidget,
          row_widget |->
              IF "rowsel" \in run.page.shown THEN run.ss.row_widget ELSE NoWidget,
          question_widget |->
              IF "qsel" \in run.page.shown THEN run.ss.question_widget ELSE NoWidget]

---------------------------------------------------------------------------
(* One user interaction and the render pass it triggers *)

Session ==
    [selected_index |-> selected_index,
     view_mode_selector |-> view_mode_selector,
     response_grid |-> response_grid,
     name_widget |-> name_widget,
     row_widget |-> row_widget,
     question_widget |-> question_widget]

\* the script runs once, top to bottom, on the session ss the interaction left
RenderPass(file, button, ss, ev) ==
    \E run \in {main(ss, file, button)} : \E fin \in {Finish(run)} :
        /\ uploaded_file' = file
        /\ selected_index' = fin.selected_index
        /\ view_mode_selector' = fin.view_mode_selector
        /\ response_grid' = fin.response_grid
        /\ name_widget' = fin.name_widget
        /\ row_widget' = fin.row_widget
        /\ question_widget' = fin.question_widget
        /\ event' = ev
        /\ before' = [selected_index |-> selected_index,
                      view_mode |-> radio(Session),
                      pending |-> ss.response_grid.rows]
        /\ page' = run.page

\* the page is opened: lines 13-14, then main() with no file and no click
Init ==
    /\ uploaded_file = NoFile
    /\ selected_index = Finish(main(FreshSession, NoFile, FALSE)).selected_index
    /\ view_mode_selector = Finish(main(FreshSession, NoFile, FALSE)).view_mode_selector
    /\ response_grid = Finish(main(FreshSession, NoFile, FALSE)).response_grid
    /\ name_widget = Finish(main(FreshSession, NoFile, FALSE)).name_widget
    /\ row_widget = Finish(main(FreshSession, NoFile, FALSE)).row_widget
    /\ question_widget = Finish(main(FreshSession, NoFile, FALSE)).question_widget
    /\ event = [kind |-> "open", arg |-> 0]
    /\ before = [selected_index |-> FreshSession.selected_index,
                 view_mode |-> radio(FreshSession),
                 pending |-> <<>>]
    /\ page = main(FreshSession, NoFile, FALSE).page

\* line 25: a file is chosen in the uploader
Upload(file) ==
    /\ file # uploaded_file
    /\ RenderPass(file, FALSE, Session, [kind |-> "upload", arg |-> 0])

\* line 25: the uploaded file is removed
RemoveFile ==
    /\ uploaded_file # NoFile
    /\ RenderPass(NoFile, FALSE, Session, [kind |-> "remove", arg |-> 0])

\* line 33: the example button is clicked
LoadExample ==
    /\ "button" \in page.shown
    /\ RenderPass(uploaded_file, TRUE, Session, [kind |-> "example", arg |-> 0])

\* lines 104-111: row i of the grid is clicked
ClickRow(i) ==
    /\ "grid" \in page.shown
    /\ i \in 0..(nrows(page.df) - 1)
    /\ RenderPass(uploaded_file, FALSE,
                  [Session EXCEPT !.response_grid = [has |-> TRUE, rows |-> <<i>>]],
                  [kind |-> "click_row", arg |-> i])

\* lines 87-91: another view mode is picked in the radio
PickMode(mode) ==
    /\ "radio" \in page.shown
    /\ mode # page.view_mode
    /\ RenderPass(uploaded_file, FALSE,
                  [Session EXCEPT !.view_mode_selector = mode],
                  [kind |-> "pick_mode", arg |-> mode])

\* lines 125-130: another record is picked in the row selector
PickRow(r) ==
    /\ "rowsel" \in page.shown
    /\ r \in 0..(nrows(page.df) - 1)
    /\ r # page.record
    /\ RenderPass(uploaded_file, FALSE,
                  [Session EXCEPT !.row_widget.val = r],
                  [kind |-> "pick_row", arg |-> r])

\* lines 68-73: another identifier column is picked
PickName(c) ==
    /\ "name" \in page.shown
    /\ c \in 0..(Len(page.df.columns) - 1)
    /\ page.df.columns[c + 1] # page.name_col
    /\ RenderPass(uploaded_file, FALSE,
                  [Session EXCEPT !.name_widget.val = c],
                  [kind |-> "pick_name", arg |-> c])

\* lines 205-209: another question is picked
PickQuestion(q) ==
    /\ "qsel" \in page.shown
    /\ q \in 0..(Len(available_cols(page.df)) - 1)
    /\ available_cols(page.df)[q + 1] # page.question
    /\ RenderPass(uploaded_file, FALSE,
                  [Session EXCEPT !.question_widget.val = q],
                  [kind |-> "pick_question", arg |-> q])

\* the largest table any pass can have loaded
MaxTableRows == IF MaxRows > nrows(ExampleData) THEN MaxRows ELSE nrows(ExampleData)
MaxTableCols == Len(ExampleData.columns)

Next ==
    \/ \E file \in Files : Upload(file)
    \/ RemoveFile
    \/ LoadExample
    \/ \E i \in 0..(MaxTableRows - 1) : ClickRow(i)
    \/ \E mode \in Range(ViewModes) : PickMode(mode)
    \/ \E r \in 0..(MaxTableRows - 1) : PickRow(r)
    \/ \E c \in 0..(MaxTableCols - 1) : PickName(c)
    \/ \E q \in 0..(MaxTableCols - 1) : PickQuestion(q)

Spec == Init /\ [][Next]_vars

---------------------------------------------------------------------------
(* Properties *)

\* a pass that got as far as a table
Loaded == page.df # NoDF

\* the k-th smallest (k from 1) element of a finite set of integers
Nth(S, k) == CHOOSE x \in S : Cardinality({y \in S : y < x}) = k - 1

\* C1: a click on row i of the Overview grid makes the pass it triggers select row i,
\* show the Individual Detail View and render row i.
C1_ClickSelectsRow ==
    event.kind = "click_row" =>
        /\ selected_index = event.arg
        /\ page.view_mode = Detail
        /\ page.exit = "end"
        /\ page.record = event.arg

C3_SelectedRowInRange ==
    page.view_mode = Detail =>
        /\ page.exit = "end"
        /\ selected_index \in 0..(nrows(page.df) - 1)

\* C4: picking a view mode in the radio makes that mode the view mode of the pass it
\* triggers and leaves the selected row index as it was.
C4_PickModeSetsMode ==
    event.kind = "pick_mode" =>
        /\ page.view_mode = event.arg
        /\ selected_index = before.selected_index

\* C5: the Detail view emits exactly the non-empty cells of the selected row of the
\* uploaded table, in column order, each under its column name, leaving out only the
\* row-identifier column.
C5_DetailBlocks ==
    (page.view_mode = Detail /\ page.exit = "end") =>
        LET row == page.src.rows[page.record + 1]
            keep == {k \in 1..Len(page.src.columns) :
                        page.src.columns[k] # cRowID /\ row[k] # NaN}
        IN  /\ Len(page.blocks) = Cardinality(keep)
            /\ \A j \in 1..Len(page.blocks) :
                   page.blocks[j] = [question |-> page.src.columns[Nth(keep, j)],
                                     answer |-> row[Nth(keep, j)]]

\* C6: the Question view emits exactly one block for each row whose cell in the
\* selected column is not empty, in row order, labelled with the row's cell in the
\* identifier column, and nothing for the other rows.
C6_QuestionBlocks ==
    (page.view_mode = QuestionAnalysis /\ page.exit = "end") =>
        LET q == get_loc(page.df, page.question) + 1
            id == get_loc(page.df, page.name_col) + 1
            keep == {r \in 1..nrows(page.df) : page.df.rows[r][q] # NaN}
        IN  /\ Len(page.blocks) = Cardinality(keep)
            /\ \A j \in 1..Len(page.blocks) :
                   page.blocks[j] = [question |-> page.df.rows[Nth(keep, j)][id],
                                     answer |-> page.df.rows[Nth(keep, j)][q]]

C6_Witness ==
    /\ page.view_mode = QuestionAnalysis
    /\ page.exit = "end"
    /\ nrows(page.df) = 3
    /\ Len(page.blocks) = 2
    /\ page.question = cScore
    /\ page.name_col = cName

\* a column name that holds "name" in any mix of cases
HasName(col) ==
    \E i \in 1..(Len(col) - 3) :
        /\ col[i] \in {"n", "N"}
        /\ col[i + 1] \in {"a", "A"}
        /\ col[i + 2] \in {"m", "M"}
        /\ col[i + 3] \in {"e", "E"}

\* C7: the default of the identifier-column control is the first column whose name
\* holds "name" in any case, and the first column when there is none.
C7_DefaultNameColumn ==
    "name" \in page.shown =>
        LET hits == {k \in 0..(Len(page.df.columns) - 1) : HasName(page.df.columns[k + 1])}
        IN  IF hits = {} THEN page.default_name_index = 0
            ELSE /\ page.default_name_index \in hits
                 /\ \A k \in hits : page.default_name_index <= k

C7_Witness ==
    /\ "name" \in page.shown
    /\ page.df.columns = <<cRowID, cScore, cUSERNAME, cName>>
    /\ page.default_name_index = 2

C9_RowIdAdded ==
    page.src # NoDF =>
        /\ Loaded
        /\ nrows(page.df) = nrows(page.src)
        /\ Cardinality({k \in 1..Len(page.df.columns) : page.df.columns[k] = cRowID}) = 1
        /\ IF cRowID \in Range(page.src.columns) THEN page.df = page.src
           ELSE \E p \in 1..Len(page.df.columns) :
                   LET others == (1..Len(page.df.columns)) \ {p}
                   IN  /\ page.df.columns[p] = cRowID
                       /\ \A r \in 1..nrows(page.df) : page.df.rows[r][p] = r - 1
                       /\ Len(page.src.columns) = Cardinality(others)
                       /\ \A j \in 1..Len(page.src.columns) :
                              /\ page.df.columns[Nth(others, j)] = page.src.columns[j]
                              /\ \A r \in 1..nrows(page.df) :
                                     page.df.rows[r][Nth(others, j)] = page.src.rows[r][j]

====
